---------------------------- MODULE Spec2Model ----------------------------
(***************************************************************************)
(* The SDS011 driver of src/src/lib.rs: the command frames it builds, the  *)
(* reply validation and decoding, and the three operations (new with its   *)
(* set_report_mode, query, set_work_period) run against a serial port      *)
(* whose other end is the sensor.                                          *)
(*                                                                         *)
(* Bytes are naturals 0..255.  A Rust index i of a Vec or array is the     *)
(* TLA+ index i+1; At(s, i) reads with the Rust index.                     *)
(***************************************************************************)
EXTENDS Naturals, Sequences, FiniteSets

VARIABLES
    codec,      \* "none": new() not called; "open": the caller holds an SDS011;
                \* "failed": new() returned Err
    rx,         \* bytes buffered in the port's inbound stream, oldest first
    first,      \* the first frame written on the port (<<>>: none yet)
    mode_set,   \* set_report_mode's get_reply returned Ok on this port
    op,         \* the last call: "none", "new", "query", "set_work_period"
    arg,        \* work_time of the last set_work_period call (0 otherwise)
    io,         \* transport calls of the last call, in order: "write", "read"
    sent,       \* the frame the last call's write_all delivered (<<>>: none)
    ans,        \* what the sensor did with the last call's command
    buf,        \* the 10 bytes the last call's read_exact returned (<<>>: none)
    res,        \* the Result the last call returned
    timed_out,  \* the last call's read_exact returned Err
    prev_query  \* for a query: what the call before it was: "failed" (a
                \* query that returned Err), "same" (a query that returned Ok
                \* and read the bytes this one read, this one Ok too), "ok"
                \* (any other query that returned Ok); "none" otherwise

vars == <<codec, rx, first, mode_set, op, arg, io, sent, ans, buf, res,
          timed_out, prev_query>>

---------------------------------------------------------------------------
(* Bounds of the model.                                                    *)

\* A sensor in active mode pushes at most MaxPush frames before the
\* report-mode command takes effect.
MaxPush == 1

---------------------------------------------------------------------------
(* Protocol constants, lib.rs:10-32.                                       *)

HEAD == 170
TAIL == 171
CMD_ID == 180
READ == 0
WRITE == 1
REPORT_MODE_CMD == 2
ACTIVE == 0
PASSIVE == 1
QUERY_CMD == 4
WORK_PERIOD_CMD == 8

\* The length of the reply buffer, [0u8; 10].
REPLY_LEN == 10

---------------------------------------------------------------------------
(* Integer helpers.                                                        *)

At(s, i) == s[i + 1]

\* vec![b'\x00'; n]
RECURSIVE Zeros(_)
Zeros(n) == IF n = 0 THEN <<>> ELSE <<0>> \o Zeros(n - 1)

\* A sum on a 32-bit accumulator: s modulo 2^32, written on its 16-bit
\* halves.
WrapU32[s \in Nat] == ((s \div 65536) % 65536) * 65536 + (s % 65536)

\* The accumulator taken to be a u8: every addition wraps at 256.
AddU8(a, b) == (a + b) % 256

\* checksum += i as u32
AddU32(a, b) == WrapU32[a + b]

\* The accumulator after the loop has run over s, first byte first.
SumOf[s \in Seq(Nat)] ==
    IF s = <<>> THEN 0 ELSE AddU32(SumOf[SubSeq(s, 1, Len(s) - 1)], s[Len(s)])

\* The accumulation loops of finish_cmd and get_reply.
SumU32(s) == SumOf[s]

\* a & b on naturals, bit by bit from the lowest.
AndOf[a \in Nat, b \in Nat] ==
    IF a = 0 \/ b = 0 THEN 0
    ELSE (a % 2) * (b % 2) + 2 * AndOf[a \div 2, b \div 2]

\* a & b
BitAnd(a, b) == AndOf[a, b]

\* x as u8
AsU8(x) == x % 256

---------------------------------------------------------------------------
(* Command frames.                                                         *)

\* cmd_begin: the header byte and the command id.
cmd_begin == <<HEAD, CMD_ID>>

\* finish_cmd with the checksum taken before the id bytes are pushed.
finish_cmd_sum_before_ids(cmd) ==
    LET ch == SubSeq(cmd, 3, Len(cmd))
        checksum == SumU32(ch) % 256
    IN  cmd \o <<255, 255>> \o <<AsU8(checksum), TAIL>>

\* finish_cmd: the two id bytes, the checksum over cmd[2..], the tail.
finish_cmd(cmd) ==
    LET id1 == 255
        id2 == 255
        c == cmd \o <<id1, id2>>
        ch == SubSeq(c, 3, Len(c))
        checksum == SumU32(ch) % 256
    IN  c \o <<AsU8(checksum), TAIL>>

\* set_report_mode asking for active mode.
ReportModeFrameActive ==
    finish_cmd(cmd_begin \o <<REPORT_MODE_CMD, WRITE, ACTIVE>> \o Zeros(10))

\* The frame set_report_mode builds (read = false, active = false).
ReportModeFrame ==
    LET read == FALSE
        active == FALSE
    IN  finish_cmd(cmd_begin
                   \o <<REPORT_MODE_CMD>>
                   \o <<IF read THEN READ ELSE WRITE>>
                   \o <<IF active THEN ACTIVE ELSE PASSIVE>>
                   \o Zeros(10))

\* query padding its opcode with 11 bytes, as the two-parameter commands do
\* with 10.
QueryFrameShort == finish_cmd(cmd_begin \o <<QUERY_CMD>> \o Zeros(11))

\* The frame query builds.
QueryFrame == finish_cmd(cmd_begin \o <<QUERY_CMD>> \o Zeros(12))

\* set_work_period sending the read flag.
WorkPeriodFrameRead(work_time) ==
    finish_cmd(cmd_begin \o <<WORK_PERIOD_CMD, READ, work_time>> \o Zeros(10))

\* The frame set_work_period builds (read = false).
WorkPeriodFrame(work_time) ==
    LET read == FALSE
    IN  finish_cmd(cmd_begin
                   \o <<WORK_PERIOD_CMD>>
                   \o <<IF read THEN READ ELSE WRITE>>
                   \o <<work_time>>
                   \o Zeros(10))

\* The input check letting 31 through.
TooLongOffByOne(work_time) == work_time > 31

\* The input check of set_work_period.
TooLong(work_time) == work_time > 30

---------------------------------------------------------------------------
(* Results.  Error::ReadError carries a description string, left out; the  *)
(* Message's timestamp is the wall clock at decode time, left out.         *)

NoMsg == <<>>
Err(kind) == [kind |-> kind, msg |-> NoMsg]
OkUnit == [kind |-> "Ok", msg |-> NoMsg]
OkMsg(m) == [kind |-> "Ok", msg |-> <<m>>]

---------------------------------------------------------------------------
(* Reply validation and decoding.                                          *)

\* port.read_exact(buf) on the bytes available until the read timeout:
\* 10 bytes are taken from the front; with fewer the call times out and
\* the bytes it had read are gone from the stream.
read_exact(avail) ==
    IF Len(avail) >= REPLY_LEN
    THEN [ok |-> TRUE, buf |-> SubSeq(avail, 1, REPLY_LEN),
          rest |-> SubSeq(avail, REPLY_LEN + 1, Len(avail))]
    ELSE [ok |-> FALSE, buf |-> <<>>, rest |-> <<>>]

\* The checksum taken over buf[2..7], one byte short.
ReplyChecksumShort(data) == BitAnd(SumU32(SubSeq(data, 1, 5)), 255)

\* The checksum get_reply computes over data = buf[2..8].
ReplyChecksum(data) == BitAnd(SumU32(data), 255)

\* get_reply without the ? on read_exact: the zeroed buffer goes on to
\* validation.
get_reply_read_unchecked(avail) ==
    LET rd == read_exact(avail)
        b == IF rd.ok THEN rd.buf ELSE Zeros(REPLY_LEN)
    IN  IF AsU8(ReplyChecksum(SubSeq(b, 3, 8))) # At(b, 8)
        THEN [kind |-> "BadChecksum", buf |-> b, rest |-> rd.rest]
        ELSE [kind |-> "Ok", buf |-> b, rest |-> rd.rest]

\* get_reply also rejecting a reply whose header or tail byte is wrong.
get_reply_checking_envelope(avail) ==
    LET rd == read_exact(avail)
    IN  IF ~rd.ok
        THEN [kind |-> "ReadError", buf |-> <<>>, rest |-> rd.rest]
        ELSE IF \/ At(rd.buf, 0) # HEAD
                \/ At(rd.buf, 9) # TAIL
                \/ AsU8(ReplyChecksum(SubSeq(rd.buf, 3, 8))) # At(rd.buf, 8)
        THEN [kind |-> "BadChecksum", buf |-> rd.buf, rest |-> rd.rest]
        ELSE [kind |-> "Ok", buf |-> rd.buf, rest |-> rd.rest]

\* get_reply slicing buf[8..8]: no data bytes.
get_reply_empty_slice(avail) ==
    LET rd == read_exact(avail)
    IN  IF ~rd.ok
        THEN [kind |-> "ReadError", buf |-> <<>>, rest |-> rd.rest]
        ELSE LET data == SubSeq(rd.buf, 9, 8)
             IN  IF Len(data) = 0
                 THEN [kind |-> "EmptyDataFrame", buf |-> rd.buf, rest |-> rd.rest]
                 ELSE IF AsU8(ReplyChecksum(data)) # At(rd.buf, 8)
                 THEN [kind |-> "BadChecksum", buf |-> rd.buf, rest |-> rd.rest]
                 ELSE [kind |-> "Ok", buf |-> rd.buf, rest |-> rd.rest]

\* get_reply: read, then validate; rest is what stays in the stream.
get_reply(avail) ==
    LET rd == read_exact(avail)
    IN  IF ~rd.ok
        THEN [kind |-> "ReadError", buf |-> <<>>, rest |-> rd.rest]
        ELSE LET data == SubSeq(rd.buf, 3, 8)
             IN  IF Len(data) = 0
                 THEN [kind |-> "EmptyDataFrame", buf |-> rd.buf, rest |-> rd.rest]
                 ELSE IF AsU8(ReplyChecksum(data)) # At(rd.buf, 8)
                 THEN [kind |-> "BadChecksum", buf |-> rd.buf, rest |-> rd.rest]
                 ELSE [kind |-> "Ok", buf |-> rd.buf, rest |-> rd.rest]

\* transmute taken to read little-endian on every host.
TransmuteLittle(ar, big_endian) == ar[1] + 256 * ar[2]

\* transmute::<[u8; 2], u16>(ar): the host's byte order decides.
Transmute(ar, big_endian) ==
    IF big_endian THEN 256 * ar[1] + ar[2] ELSE ar[1] + 256 * ar[2]

\* u16::to_le: the identity on a little-endian host, a byte swap otherwise.
ToLe(x, big_endian) ==
    IF big_endian THEN 256 * (x % 256) + (x \div 256) ELSE x

\* raw as f32 / 10.0, as the decimal it denotes: whole part and tenths
\* (every u16 is exact in f32, and distinct raws give distinct quotients).
DivTen(raw) == [whole |-> raw \div 10, tenths |-> raw % 10]

\* The Message query builds from a validated reply.
Decode(raw, big_endian) ==
    LET pm25_ar == <<At(raw, 2), At(raw, 3)>>
        pm10_ar == <<At(raw, 4), At(raw, 5)>>
        pm25 == ToLe(Transmute(pm25_ar, big_endian), big_endian)
        pm10 == ToLe(Transmute(pm10_ar, big_endian), big_endian)
    IN  [pm25 |-> DivTen(pm25), pm10 |-> DivTen(pm10)]

---------------------------------------------------------------------------
(* The sensor at the other end of the port.  It sends whole 10-byte        *)
(* frames: AA, a command echo (C0 for a measurement, C5 for a              *)
(* confirmation), six data bytes, a checksum, AB.  Which frame answers     *)
(* which command is left open: the driver reads neither the echo nor the   *)
(* header.                                                                 *)

\* The checksum the sensor puts on six data bytes.
SensorSum(d) == (d[1] + d[2] + d[3] + d[4] + d[5] + d[6]) % 256

\* A frame with its checksum off by delta (0: intact).
SensorFrame(echo, d, delta) ==
    <<170, echo>> \o d \o <<(SensorSum(d) + delta) % 256, 171>>

\* The frames of the protocol specification: a measurement (PM2.5 raw 100,
\* PM10 raw 200), the confirmation of the report-mode command, and each of
\* them corrupted in transit.
FewFrames ==
    { SensorFrame(192, <<100, 0, 200, 0, 18, 52>>, k) : k \in {0, 1} }
    \cup { SensorFrame(197, <<2, 1, 1, 0, 18, 52>>, k) : k \in {0, 1} }

\* The frames of the byte-level specification: data bytes over low, high
\* and mixed values, so that sums wrap and both bytes of a field count;
\* checksums intact or off by one, either way.
PM25Bytes == { <<100, 0>>, <<255, 255>>, <<1, 2>> }
PM10Bytes == { <<200, 0>>, <<255, 255>>, <<2, 1>> }
IdBytes == { <<0, 0>>, <<255, 255>>, <<18, 52>> }
ManyFrames ==
    { SensorFrame(192, a \o b \o c, k) :
        a \in PM25Bytes, b \in PM10Bytes, c \in IdBytes, k \in {0, 1, 255} }

\* Frames that differ from one another in the header, the command echo or
\* the tail only: a measurement and a confirmation, each under the
\* envelopes of a measurement, of a confirmation, and under wrong ones.
Envelopes ==
    { <<170, 192, 171>>, <<170, 197, 171>>, <<0, 192, 171>>,
      <<170, 192, 0>>, <<85, 0, 85>> }
OddFrames ==
    { <<e[1], e[2]>> \o d \o <<(SensorSum(d) + k) % 256, e[3]>> :
        e \in Envelopes,
        d \in { <<100, 0, 200, 0, 18, 52>>, <<2, 1, 1, 0, 18, 52>> },
        k \in {0, 1} }

\* What the sensor does with a command: it sends frame r before the read
\* times out ("intime"), after it ("late"), or sends nothing ("none").
NoAnswer == [t |-> "none", r |-> <<>>]
Answers(Frames, Timings) ==
    { [t |-> x, r |-> f] : x \in Timings, f \in Frames } \cup {NoAnswer}

AnswersFaulty == Answers(FewFrames, {"intime", "late"})
AnswersPrompt == Answers(ManyFrames \cup OddFrames, {"intime"})

\* Bytes a sensor in active mode pushed between the open of the port and
\* the report-mode command taking effect: up to n whole frames.
RECURSIVE PushesUpTo(_)
PushesUpTo(n) ==
    IF n = 0 THEN {<<>>}
    ELSE PushesUpTo(n - 1)
         \cup { p \o f : p \in PushesUpTo(n - 1), f \in FewFrames }

Pushes == PushesUpTo(MaxPush)
NoPushes == {<<>>}

\* work_time values: every u8, and the ones around the limit.
U8 == 0 .. 255
FewWorkTimes == {0, 1, 29, 30, 31, 32, 255}

---------------------------------------------------------------------------
(* One command/reply round trip: execute(&cmd)?, then get_reply()?.        *)
(* wok: write_all succeeds.  a: the sensor's answer.  stream: the inbound  *)
(* bytes before the call.                                                  *)

\* A round trip that sends the command and reads once more when the reply
\* fails validation.
round_trip_retry(cmd, stream, wok, a) ==
    IF ~wok
    THEN [kind |-> "ReadError", buf |-> <<>>, io |-> <<"write">>,
          sent |-> <<>>, rx |-> stream, timed_out |-> FALSE]
    ELSE LET avail == stream \o (IF a.t = "intime" THEN a.r ELSE <<>>)
             g == get_reply(avail)
             late == IF a.t = "late" THEN a.r ELSE <<>>
         IN  IF g.kind = "BadChecksum"
             THEN LET h == get_reply(g.rest)
                  IN  [kind |-> h.kind, buf |-> h.buf,
                       io |-> <<"write", "read", "write", "read">>,
                       sent |-> cmd, rx |-> h.rest \o late,
                       timed_out |-> ~read_exact(g.rest).ok]
             ELSE [kind |-> g.kind, buf |-> g.buf, io |-> <<"write", "read">>,
                   sent |-> cmd, rx |-> g.rest \o late,
                   timed_out |-> ~read_exact(avail).ok]

\* A round trip without the ? on execute: get_reply runs after a failed
\* write too.
round_trip_write_unchecked(cmd, stream, wok, a) ==
    LET got == IF wok /\ a.t = "intime" THEN a.r ELSE <<>>
        g == get_reply(stream \o got)
    IN  [kind |-> g.kind, buf |-> g.buf, io |-> <<"write", "read">>,
         sent |-> IF wok THEN cmd ELSE <<>>,
         rx |-> g.rest \o (IF wok /\ a.t = "late" THEN a.r ELSE <<>>),
         timed_out |-> ~read_exact(stream \o got).ok]

round_trip(cmd, stream, wok, a) ==
    IF ~wok
    THEN [kind |-> "ReadError", buf |-> <<>>, io |-> <<"write">>,
          sent |-> <<>>, rx |-> stream, timed_out |-> FALSE]
    ELSE LET avail == stream \o (IF a.t = "intime" THEN a.r ELSE <<>>)
             g == get_reply(avail)
         IN  [kind |-> g.kind, buf |-> g.buf, io |-> <<"write", "read">>,
              sent |-> cmd,
              rx |-> g.rest \o (IF a.t = "late" THEN a.r ELSE <<>>),
              timed_out |-> ~read_exact(avail).ok]

\* The sensor sees a command only if the write delivered it.
Seen(wok, a) == IF wok THEN a ELSE NoAnswer

---------------------------------------------------------------------------
(* The state after construction of the model: no port opened yet.          *)

Init ==
    /\ codec = "none"
    /\ rx = <<>>
    /\ first = <<>>
    /\ mode_set = FALSE
    /\ op = "none"
    /\ arg = 0
    /\ io = <<>>
    /\ sent = <<>>
    /\ ans = NoAnswer
    /\ buf = <<>>
    /\ res = Err("none")
    /\ timed_out = FALSE
    /\ prev_query = "none"

\* new without the ? on set_report_mode.
new_result_unchecked(opened, rt) ==
    IF ~opened THEN Err("ReadError") ELSE OkUnit

\* What new returns: the open error, set_report_mode's error, or the codec.
new_result(opened, rt) ==
    IF ~opened THEN Err("ReadError")
    ELSE IF rt.kind = "Ok" THEN OkUnit ELSE Err(rt.kind)

\* SDS011::new with its set_report_mode.  A failed new drops the SDS011,
\* which closes the port; the caller may try again.
new(As, Ps) ==
    /\ codec # "open"
    /\ \E opened \in BOOLEAN, wok \in BOOLEAN, a \in As, push \in Ps :
        /\ (~opened) => (wok /\ a = NoAnswer /\ push = <<>>)
        /\ (~wok) => (a = NoAnswer)
        /\ \E rt \in {round_trip(ReportModeFrame, push, wok, a)} :
           \E r \in {new_result(opened, rt)} :
            /\ op' = "new"
            /\ arg' = 0
            /\ res' = r
            /\ codec' = IF r.kind = "Ok" THEN "open" ELSE "failed"
            /\ io' = IF opened THEN rt.io ELSE <<>>
            /\ sent' = IF opened THEN rt.sent ELSE <<>>
            /\ first' = IF opened THEN rt.sent ELSE <<>>
            /\ ans' = IF opened THEN Seen(wok, a) ELSE NoAnswer
            /\ buf' = IF opened THEN rt.buf ELSE <<>>
            /\ mode_set' = (opened /\ rt.kind = "Ok")
            /\ rx' = IF r.kind = "Ok" THEN rt.rx ELSE <<>>
            /\ timed_out' = (opened /\ rt.timed_out)
            /\ prev_query' = "none"

\* SDS011::set_report_mode, a pub fn, called by the holder of an SDS011.
set_report_mode(As) ==
    /\ codec = "open"
    /\ \E wok \in BOOLEAN, a \in As :
        /\ (~wok) => (a = NoAnswer)
        /\ \E rt \in {round_trip(ReportModeFrame, rx, wok, a)} :
            /\ op' = "set_report_mode"
            /\ arg' = 0
            /\ res' = IF rt.kind = "Ok" THEN OkUnit ELSE Err(rt.kind)
            /\ io' = rt.io
            /\ sent' = rt.sent
            /\ first' = IF first = <<>> THEN rt.sent ELSE first
            /\ ans' = Seen(wok, a)
            /\ buf' = rt.buf
            /\ rx' = rt.rx
            /\ timed_out' = rt.timed_out
            /\ prev_query' = "none"
            /\ UNCHANGED <<codec, mode_set>>

\* query keeping its PM2.5 reading in a running total that is never reset.
query_result_accumulating(rt, big_endian) ==
    IF rt.kind # "Ok" THEN Err(rt.kind)
    ELSE LET m == Decode(rt.buf, big_endian)
             carried == IF res.msg = NoMsg THEN 0 ELSE res.msg[1].pm25.whole
         IN  OkMsg([pm25 |-> [whole |-> m.pm25.whole + carried,
                              tenths |-> m.pm25.tenths],
                    pm10 |-> m.pm10])

\* SDS011::query.  big_endian: the byte order of the build's target.
query_result(rt, big_endian) ==
    IF rt.kind = "Ok" THEN OkMsg(Decode(rt.buf, big_endian)) ELSE Err(rt.kind)

\* What the call before a query was, as prev_query records it.
Before(rt) ==
    IF op # "query" THEN "none"
    ELSE IF res.kind # "Ok" THEN "failed"
    ELSE IF rt.kind = "Ok" /\ rt.buf = buf THEN "same"
    ELSE "ok"

query(As) ==
    /\ codec = "open"
    /\ \E wok \in BOOLEAN, a \in As, big_endian \in BOOLEAN :
        /\ (~wok) => (a = NoAnswer)
        /\ \E rt \in {round_trip(QueryFrame, rx, wok, a)} :
            /\ op' = "query"
            /\ arg' = 0
            /\ res' = query_result(rt, big_endian)
            /\ io' = rt.io
            /\ sent' = rt.sent
            /\ first' = IF first = <<>> THEN rt.sent ELSE first
            /\ ans' = Seen(wok, a)
            /\ buf' = rt.buf
            /\ rx' = rt.rx
            /\ timed_out' = rt.timed_out
            /\ prev_query' = Before(rt)
            /\ UNCHANGED <<codec, mode_set>>

\* SDS011::set_work_period.
set_work_period(Ws, As) ==
    /\ codec = "open"
    /\ \E work_time \in Ws :
        /\ op' = "set_work_period"
        /\ arg' = work_time
        /\ IF TooLong(work_time)
           THEN /\ res' = Err("TooLongWorkTime")
                /\ io' = <<>>
                /\ sent' = <<>>
                /\ ans' = NoAnswer
                /\ buf' = <<>>
                /\ timed_out' = FALSE
                /\ prev_query' = "none"
                /\ UNCHANGED <<codec, mode_set, rx, first>>
           ELSE \E wok \in BOOLEAN, a \in As :
                /\ (~wok) => (a = NoAnswer)
                /\ \E rt \in {round_trip(WorkPeriodFrame(work_time), rx, wok, a)} :
                    /\ res' = IF rt.kind = "Ok" THEN OkUnit ELSE Err(rt.kind)
                    /\ io' = rt.io
                    /\ sent' = rt.sent
                    /\ first' = IF first = <<>> THEN rt.sent ELSE first
                    /\ ans' = Seen(wok, a)
                    /\ buf' = rt.buf
                    /\ rx' = rt.rx
                    /\ timed_out' = rt.timed_out
                    /\ prev_query' = "none"
                    /\ UNCHANGED <<codec, mode_set>>

\* The protocol specification: a sensor that may answer late or not at
\* all, corrupt frames, and push frames before passive mode is set.
Next ==
    \/ new(AnswersFaulty, Pushes)
    \/ query(AnswersFaulty)
    \/ set_work_period(FewWorkTimes, AnswersFaulty)
    \/ set_report_mode(AnswersFaulty)

Spec == Init /\ [][Next]_vars

\* The byte-level specification: a sensor that answers every command in
\* time, over many frames.
NextBytes ==
    \/ new(AnswersPrompt, NoPushes)
    \/ query(AnswersPrompt)
    \/ set_work_period(FewWorkTimes, AnswersPrompt)
    \/ set_report_mode(AnswersPrompt)

SpecBytes == Init /\ [][NextBytes]_vars

\* The work-time specification: the sensor of the protocol specification,
\* and every work_time a u8 holds.
NextWorkTime ==
    \/ new(AnswersFaulty, NoPushes)
    \/ query(AnswersFaulty)
    \/ set_work_period(U8, AnswersFaulty)
    \/ set_report_mode(AnswersFaulty)

SpecWorkTime == Init /\ [][NextWorkTime]_vars

---------------------------------------------------------------------------
(* The command-line poller, bin/sds011.rs.  Its command line parses: a     *)
(* work period that is no u8 panics before the port is opened.  Where      *)
(* main stands follows from the last call and its result.                  *)

main_pc ==
    CASE op = "none" -> "construct"
      [] op = "new" /\ codec = "open" -> "set_work_period"
      [] op = "new" /\ codec # "open" -> "exit"
      [] op = "set_work_period" /\ res.kind = "Ok" -> "poll"
      [] op = "set_work_period" /\ res.kind # "Ok" -> "panic"
      [] op = "query" -> "poll"
      [] OTHER -> "exit"

\* match SDS011::new(port): Err prints and main returns.
main_construct(As, Ps) ==
    /\ main_pc = "construct"
    /\ new(As, Ps)

\* sensor.set_work_period(work_period).unwrap()
main_set_work_period(Ws, As) ==
    /\ main_pc = "set_work_period"
    /\ set_work_period(Ws, As)

\* The loop with sensor.query().unwrap() in place of if let Ok(m).
main_poll_unwrap(As) ==
    /\ main_pc = "poll"
    /\ op = "query" => res.kind = "Ok"
    /\ query(As)

\* One turn of the loop: query, print the Message if any, sleep.
main_poll(As) ==
    /\ main_pc = "poll"
    /\ query(As)

NextMain ==
    \/ main_construct(AnswersFaulty, Pushes)
    \/ main_set_work_period(FewWorkTimes, AnswersFaulty)
    \/ main_poll(AnswersFaulty)

\* main is one thread whose every step ends: the read is bounded by the
\* port's timeout and the sleep is finite, so it takes its next step.
SpecMain == Init /\ [][NextMain]_vars /\ WF_vars(NextMain)

---------------------------------------------------------------------------
(* Properties.                                                             *)

\* The sum of bytes lo..hi (Rust indexes, both included) of f.
RECURSIVE ByteSum(_, _, _)
ByteSum(f, lo, hi) == IF hi < lo THEN 0 ELSE At(f, hi) + ByteSum(f, lo, hi - 1)

\* Byte 8 of a 10-byte reply is the sum of its bytes 2..7 modulo 256.
SumMatches(b) == Len(b) = 10 /\ At(b, 8) = ByteSum(b, 2, 7) % 256

\* A command frame: 19 bytes, AA B4 at the front, FF FF at 15 and 16, the
\* sum of bytes 2..16 modulo 256 at 17, AB at 18.
WellFramed(f) ==
    /\ Len(f) = 19
    /\ At(f, 0) = 170 /\ At(f, 1) = 180
    /\ At(f, 15) = 255 /\ At(f, 16) = 255
    /\ At(f, 17) = ByteSum(f, 2, 16) % 256
    /\ At(f, 18) = 171

\* The decimal n.t
Decimal(n, t) == [whole |-> n, tenths |-> t]

C2_ChecksumDecides ==
    (op \in {"new", "set_report_mode", "query", "set_work_period"}
     /\ buf # <<>>) =>
        /\ res.kind = "Ok" <=> SumMatches(buf)
        /\ ~SumMatches(buf) => res = Err("BadChecksum")

\* A query read a frame whose data bytes sum past 255 and whose checksum
\* byte is off, and returned BadChecksum.
C2_Witness ==
    /\ op = "query" /\ Len(buf) = 10
    /\ ByteSum(buf, 2, 7) > 255
    /\ ~SumMatches(buf)
    /\ res = Err("BadChecksum")

\* C3: a successful query reports PM2.5 as (reply[2] + 256*reply[3]) / 10
\* and PM10 as (reply[4] + 256*reply[5]) / 10, whatever bytes 6 and 7 are;
\* bytes 64 00 C8 00 give 10.0 and 20.0.
C3_Decoding ==
    (op = "query" /\ res.kind = "Ok") =>
        LET raw25 == At(buf, 2) + 256 * At(buf, 3)
            raw10 == At(buf, 4) + 256 * At(buf, 5)
        IN  /\ Len(res.msg) = 1
            /\ res.msg[1].pm25 = Decimal(raw25 \div 10, raw25 % 10)
            /\ res.msg[1].pm10 = Decimal(raw10 \div 10, raw10 % 10)
            /\ SubSeq(buf, 3, 6) = <<100, 0, 200, 0>> =>
                 /\ res.msg[1].pm25 = Decimal(10, 0)
                 /\ res.msg[1].pm10 = Decimal(20, 0)

\* A query decoded 10.0 and 20.0 from a reply whose bytes 6 and 7 are not 0.
C3_Witness ==
    /\ op = "query" /\ res.kind = "Ok"
    /\ SubSeq(buf, 3, 6) = <<100, 0, 200, 0>>
    /\ At(buf, 6) # 0 /\ At(buf, 7) # 0
    /\ res.msg = << [pm25 |-> Decimal(10, 0), pm10 |-> Decimal(20, 0)] >>

\* C4: every frame written is 19 bytes: AA, B4, 13 command bytes, FF, FF,
\* the sum of bytes 2..16 modulo 256, AB.
C4_FrameShape ==
    /\ sent # <<>> => WellFramed(sent)
    /\ first # <<>> => WellFramed(first)

\* set_work_period(30) wrote its frame.
C4_Witness ==
    /\ op = "set_work_period" /\ arg = 30
    /\ sent # <<>>

\* C5: the frame of set_work_period(m), m <= 30, carries 08 01 m and ten
\* zero bytes at 2..14, and the checksum (8 + 1 + m + 255 + 255) mod 256.
C5_WorkPeriodFrame ==
    (op = "set_work_period" /\ sent # <<>>) =>
        /\ arg <= 30
        /\ SubSeq(sent, 3, 15) = <<8, 1, arg, 0, 0, 0, 0, 0, 0, 0, 0, 0, 0>>
        /\ At(sent, 17) = (8 + 1 + arg + 255 + 255) % 256

\* set_work_period(29) wrote its frame, with checksum (519 + 29) mod 256.
C5_Witness ==
    /\ op = "set_work_period" /\ arg = 29
    /\ sent # <<>>
    /\ At(sent, 17) = 36

\* C6: every frame query writes is AA B4 04, twelve zero bytes, FF FF, the
\* checksum 02 and AB, whatever came before.
C6_QueryFrame ==
    (op = "query" /\ sent # <<>>) =>
        sent = <<170, 180, 4, 0, 0, 0, 0, 0, 0, 0, 0, 0, 0, 0, 0, 255, 255, 2, 171>>

\* A query wrote its frame with the reply to an earlier command still
\* unread in the port, and failed.
C6_Witness ==
    /\ op = "query" /\ sent # <<>>
    /\ rx # <<>>
    /\ res.kind = "BadChecksum"

\* C7: new returns a codec exactly if the port opened, the report-mode
\* frame was written, and 10 bytes were read in reply that pass the
\* checksum; otherwise it returns an error and no codec.
C7_Construction ==
    /\ op = "new" =>
        /\ codec = "open" <=> (io # <<>> /\ sent # <<>> /\ SumMatches(buf))
        /\ codec = "open" <=> res.kind = "Ok"
        /\ codec # "open" =>
             /\ codec = "failed"
             /\ res.kind \in {"ReadError", "BadChecksum"}
    /\ codec = "open" => mode_set

\* new failed on a reply with a bad checksum.
C7_Witness ==
    /\ op = "new" /\ codec = "failed"
    /\ sent # <<>> /\ Len(buf) = 10
    /\ res = Err("BadChecksum")

\* C8: the first frame written on a port is the report-mode frame
\* (02 01 01 and ten zero bytes at 2..14), and a query or work-period frame
\* is written only after it, once its reply has been validated.
C8_ReportModeFirst ==
    /\ first # <<>> =>
         SubSeq(first, 3, 15) = <<2, 1, 1, 0, 0, 0, 0, 0, 0, 0, 0, 0, 0>>
    /\ (op \in {"query", "set_work_period"} /\ io # <<>>) =>
         /\ first # <<>>
         /\ mode_set
    /\ (sent # <<>> /\ At(sent, 2) # 2) => (first # <<>> /\ mode_set)

\* A query frame was written on a port whose first frame was the
\* report-mode frame.
C8_Witness ==
    /\ op = "query" /\ sent # <<>> /\ At(sent, 2) = 4
    /\ first # <<>> /\ At(first, 2) = 2
    /\ mode_set

\* C9: a query or set_work_period whose command the sensor answers in time
\* with a checksum-valid reply succeeds, whatever calls failed before it.
C9_AnsweredCallSucceeds ==
    (/\ op \in {"query", "set_work_period"}
     /\ sent # <<>>
     /\ ans.t = "intime"
     /\ SumMatches(ans.r)) => res.kind = "Ok"

\* C10: a successful query decodes the sensor's reply to the command that
\* same call wrote, never bytes sent earlier.
C10_OwnReplyDecoded ==
    (op = "query" /\ res.kind = "Ok") =>
        /\ ans.t = "intime"
        /\ buf = ans.r

\* C11: when read_exact fails in new, set_report_mode, query or
\* set_work_period, the call returns ReadError: no Message, no success, no
\* codec from new, and no values made up from the zeroed buffer.
C11_ReadFailureIsReadError ==
    timed_out =>
        /\ res = Err("ReadError")
        /\ res.msg = <<>>
        /\ buf = <<>>
        /\ op = "new" => codec = "failed"

\* A query wrote its frame, got no reply in time and returned ReadError.
C11_Witness ==
    /\ op = "query" /\ sent # <<>>
    /\ timed_out
    /\ ans.t = "late"
    /\ res = Err("ReadError")

C14_ReportModeOnlyInNew ==
    (sent # <<>> /\ At(sent, 2) = 2) => op = "new"

\* C15: a call whose write_all fails returns ReadError at once: it issues
\* no read, returns no bytes, and leaves the inbound stream as it was (a
\* failed new closes the port instead).
C15_FailedWriteReadsNothing ==
    [][(io' # <<>> /\ sent' = <<>>) =>
        /\ io' = <<"write">>
        /\ res' = Err("ReadError")
        /\ buf' = <<>>
        /\ ~timed_out'
        /\ IF op' = "new" THEN codec' = "failed" ELSE rx' = rx]_vars

\* The write of a query failed while a frame sat unread in the port, and
\* the frame is still there.
C15_Witness ==
    /\ op = "query"
    /\ io = <<"write">> /\ sent = <<>>
    /\ res = Err("ReadError")
    /\ Len(rx) = 10

\* C16: two calls in a row that read replies equal in bytes 2..8 end the
\* same way, whatever bytes 0, 1 and 9 are: both Ok or both the same error,
\* and two such queries return the same PM2.5 and PM10.
C16_EnvelopeIgnored ==
    [][(/\ buf # <<>> /\ buf' # <<>>
        /\ SubSeq(buf', 3, 9) = SubSeq(buf, 3, 9))
       => (/\ res'.kind = res.kind
           /\ (op = "query" /\ op' = "query") => res'.msg = res.msg)]_vars

\* A query took a checksum-valid confirmation frame (echo C5, data
\* 02 01 01 00) for a measurement: PM2.5 25.8, PM10 0.1.
C16_Witness ==
    /\ op = "query" /\ res.kind = "Ok"
    /\ At(buf, 1) = 197
    /\ res.msg = << [pm25 |-> Decimal(25, 8), pm10 |-> Decimal(0, 1)] >>

\* C17: no call returns EmptyDataFrame: the bytes read are 10, so the slice
\* at 2..7 holds 6 of them, and a call ends Ok, TooLongWorkTime,
\* BadChecksum or ReadError.
C17_NeverEmptyDataFrame ==
    /\ res.kind # "EmptyDataFrame"
    /\ op # "none" =>
         res.kind \in {"Ok", "TooLongWorkTime", "BadChecksum", "ReadError"}
    /\ res.kind = "TooLongWorkTime" => op = "set_work_period"
    /\ buf # <<>> => Len(SubSeq(buf, 3, 8)) = 6

\* set_work_period read a frame wrong in header, echo, tail and checksum,
\* and returned BadChecksum.
C17_Witness ==
    /\ op = "set_work_period"
    /\ Len(buf) = 10
    /\ At(buf, 0) = 85 /\ At(buf, 1) = 0 /\ At(buf, 9) = 85
    /\ res = Err("BadChecksum")

\* C18: in the poller, after set_work_period has succeeded and after every
\* query, failed or not, the next query can be issued and eventually is;
\* when construction fails main stops and no query is ever issued.
C18_PollingNeverEnds ==
    /\ [](main_pc = "poll" => ENABLED main_poll(AnswersFaulty))
    /\ [](op = "query" => (codec = "open" /\ mode_set))
    /\ []((op = "new" /\ codec = "failed") => ~ENABLED NextMain)
    /\ (<>(main_pc = "poll")) => []<><<main_poll(AnswersFaulty)>>_vars

\* The poller issued a query right after a query that failed.
C18_Witness ==
    /\ op = "query"
    /\ prev_query = "failed"
    /\ main_pc = "poll"

\* C19: the sum finish_cmd takes over the 15 bytes of a frame and the sum
\* get_reply takes over the 6 data bytes equal the plain sum of those bytes:
\* the 32-bit accumulator never wraps, the sums staying within 15 * 255 and
\* 6 * 255; % 256 and & 255 give the same value on either sum, the low 8
\* bits, which is the checksum byte finish_cmd wrote.
C19_ChecksumLowEightBits ==
    /\ sent # <<>> =>
         LET s == SumU32(SubSeq(sent, 3, 17))
         IN  /\ s = ByteSum(sent, 2, 16)
             /\ s <= 15 * 255
             /\ s % 256 = BitAnd(s, 255)
             /\ s % 256 = s - 256 * (s \div 256)
             /\ At(sent, 17) = AsU8(s % 256)
    /\ Len(buf) = REPLY_LEN =>
         LET s == SumU32(SubSeq(buf, 3, 8))
         IN  /\ s = ByteSum(buf, 2, 7)
             /\ s <= 6 * 255
             /\ BitAnd(s, 255) = s % 256
             /\ ReplyChecksum(SubSeq(buf, 3, 8)) = s % 256

\* A query whose frame and whose reply both sum past 255, the reply with
\* all its data bytes 255, and the reply was accepted.
C19_Witness ==
    /\ op = "query"
    /\ res.kind = "Ok"
    /\ ByteSum(sent, 2, 16) > 255
    /\ ByteSum(buf, 2, 7) = 6 * 255

=============================================================================
